---- MODULE Spec2Model ----
(***************************************************************************)
(* Model of the fundamental screener: the scoring engine                   *)
(* (src/core/stock_scorer.py: the two normalizers, the weighted            *)
(* aggregation loop of StockScorer.calculate_scores, the constructor and   *)
(* get_detailed_scores), the weight adjuster and the ranking (src/main.py, *)
(* src/experiments/run_business_model.py), the sequential and parallel     *)
(* fetch of StockScreener.screen_multiple (src/stock_screener.py), the     *)
(* EV/FCF and interest-coverage calculators (src/metrics/core_metrics.py)  *)
(* and the results cache (src/utils/cache_results.py).                     *)
(*                                                                         *)
(* Python floats are modelled as binary floating-point numbers with a      *)
(* MantBits-bit significand and round-to-nearest-even after every          *)
(* operation (the exponent is unbounded: no overflow or underflow).        *)
(* A number is the record [tag |-> "num", m |-> significand, e |-> exp]    *)
(* standing for m * 2^e, with 2^(MantBits-1) <= |m| < 2^MantBits or m = 0. *)
(* None (missing) and NaN (not applicable) are the two other cell states.  *)
(***************************************************************************)
EXTENDS Integers, Sequences, FiniteSets, TLC

\* ------------------------------------------------------------------------
\* Bounds of the model
\* ------------------------------------------------------------------------
MantBits == 7
NumTickers == 2
MaxPeers == 4
MaxColumn == 3
OutlierLen == 12
RankLen == 4
NumScreened == 3
MaxWorkers == 2

\* ------------------------------------------------------------------------
\* Floating-point numbers
\* ------------------------------------------------------------------------
Half == 2 ^ (MantBits - 1)
Top == 2 ^ MantBits

None == [tag |-> "None", m |-> 0, e |-> 0]
NaN == [tag |-> "NaN", m |-> 0, e |-> 0]
Zero == [tag |-> "num", m |-> 0, e |-> 0]

IsNum(v) == v.tag = "num"

RECURSIVE RoundPos(_, _, _)
\* the float nearest to (n / d) * 2^e, for n > 0 and d > 0; ties to even
RoundPos(n, d, e) ==
    IF n < d * Half THEN RoundPos(2 * n, d, e - 1)
    ELSE IF n >= d * Top THEN RoundPos(n, 2 * d, e + 1)
    ELSE LET q == n \div d
             r == n - q * d
             up == (2 * r > d) \/ (2 * r = d /\ q % 2 = 1)
             m == IF up THEN q + 1 ELSE q
         IN IF m = Top THEN [tag |-> "num", m |-> Half, e |-> e + 1]
                       ELSE [tag |-> "num", m |-> m, e |-> e]

FNeg(a) == [tag |-> "num", m |-> 0 - a.m, e |-> a.e]

\* the float nearest to (n / d) * 2^e, d > 0
Rnd(n, d, e) ==
    IF n = 0 THEN Zero
    ELSE IF n > 0 THEN RoundPos(n, d, e)
    ELSE FNeg(RoundPos(0 - n, d, e))

\* a decimal literal n/d of the source, as the float it denotes
Lit(n, d) == Rnd(n, d, 0)

FAdd(a, b) ==
    IF a.m = 0 THEN b
    ELSE IF b.m = 0 THEN a
    ELSE LET hi == IF a.e >= b.e THEN a ELSE b
             lo == IF a.e >= b.e THEN b ELSE a
             diff == hi.e - lo.e
         IN IF diff >= MantBits + 2 THEN hi
            ELSE Rnd(hi.m * (2 ^ diff) + lo.m, 1, lo.e)

FSub(a, b) == FAdd(a, FNeg(b))

FMul(a, b) == Rnd(a.m * b.m, 1, a.e + b.e)

\* b is not zero
FDiv(a, b) ==
    IF b.m > 0 THEN Rnd(a.m, b.m, a.e - b.e)
    ELSE Rnd(0 - a.m, 0 - b.m, a.e - b.e)

Sign(a) == IF a.m > 0 THEN 1 ELSE IF a.m < 0 THEN -1 ELSE 0

PosLess(a, b) == a.e < b.e \/ (a.e = b.e /\ a.m < b.m)

FLess(a, b) ==
    IF Sign(a) # Sign(b) THEN Sign(a) < Sign(b)
    ELSE IF Sign(a) = 1 THEN PosLess(a, b)
    ELSE IF Sign(a) = -1 THEN PosLess(FNeg(b), FNeg(a))
    ELSE FALSE

FLeq(a, b) == ~FLess(b, a)

RECURSIVE SqrtBits(_, _, _)
\* floor of the square root of x, built bit by bit from the bit `bit' down
SqrtBits(x, s, bit) ==
    IF bit = 0 THEN s
    ELSE IF (s + bit) * (s + bit) <= x THEN SqrtBits(x, s + bit, bit \div 2)
    ELSE SqrtBits(x, s, bit \div 2)

\* the float nearest to sqrt(x) * 2^e, s being the floor of sqrt(x)
SqrtRound(s, x, e) ==
    IF s * s = x THEN Rnd(s, 1, e) ELSE Rnd(2 * s + 1, 2, e)

\* a ** 0.5 for a > 0, correctly rounded
FSqrt(a) ==
    LET k == (MantBits + 5) + ((a.e - (MantBits + 5)) % 2)
        x == a.m * (2 ^ k)
    IN SqrtRound(SqrtBits(x, 0, 2 ^ (MantBits + 2)), x, (a.e - k) \div 2)

\* ------------------------------------------------------------------------
\* Helpers on columns (Python lists)
\* ------------------------------------------------------------------------
\* [v for v in values if v is not None and not isnan(v)]
ValidValues(values) == SelectSeq(values, IsNum)

RECURSIVE FSumFrom(_, _, _)
\* sum(xs): left-to-right float addition starting from 0
FSumFrom(xs, i, acc) ==
    IF i > Len(xs) THEN acc ELSE FSumFrom(xs, i + 1, FAdd(acc, xs[i]))

FSum(xs) == FSumFrom(xs, 1, Zero)

RECURSIVE FMinFrom(_, _, _)
FMinFrom(xs, i, acc) ==
    IF i > Len(xs) THEN acc
    ELSE FMinFrom(xs, i + 1, IF FLess(xs[i], acc) THEN xs[i] ELSE acc)

\* min(xs), xs not empty
FMin(xs) == FMinFrom(xs, 2, xs[1])

RECURSIVE FMaxFrom(_, _, _)
FMaxFrom(xs, i, acc) ==
    IF i > Len(xs) THEN acc
    ELSE FMaxFrom(xs, i + 1, IF FLess(acc, xs[i]) THEN xs[i] ELSE acc)

\* max(xs), xs not empty
FMax(xs) == FMaxFrom(xs, 2, xs[1])

Hundred == Lit(100, 1)
Fifty == Lit(50, 1)
\* the literal 16.67 of normalize_zscore
ZScale == Lit(1667, 100)

\* AllFifty that scores the missing cells too
AllFifty_ScoresMissing(values) == [i \in 1..Len(values) |-> Fifty]

\* [50.0 if v is valid else None for v in values]
AllFifty(values) ==
    [i \in 1..Len(values) |-> IF IsNum(values[i]) THEN Fifty ELSE None]

\* ------------------------------------------------------------------------
\* StockScorer.normalize_minmax
\* ------------------------------------------------------------------------
\* MinmaxScore that ignores the direction
MinmaxScore_NoInvert(v, min_val, max_val, higher_is_better) ==
    FMul(FDiv(FSub(v, min_val), FSub(max_val, min_val)), Hundred)

MinmaxScore(v, min_val, max_val, higher_is_better) ==
    LET score == FMul(FDiv(FSub(v, min_val), FSub(max_val, min_val)), Hundred)
    IN IF higher_is_better THEN score ELSE FSub(Hundred, score)

\* the result of normalize_minmax once min_val and max_val are known
MinmaxScores(values, min_val, max_val, higher_is_better) ==
    IF max_val = min_val THEN AllFifty(values)
    ELSE [i \in 1..Len(values) |->
             IF IsNum(values[i])
             THEN MinmaxScore(values[i], min_val, max_val, higher_is_better)
             ELSE None]

normalize_minmax(values, higher_is_better) ==
    IF Len(ValidValues(values)) = 0 THEN [i \in 1..Len(values) |-> None]
    ELSE MinmaxScores(values, FMin(ValidValues(values)), FMax(ValidValues(values)),
                      higher_is_better)

\* ------------------------------------------------------------------------
\* StockScorer.normalize_zscore
\* ------------------------------------------------------------------------
\* Clamp without the clamping
Clamp_Unclamped(score) == score

\* max(0, min(100, score))
Clamp(score) ==
    LET lo == IF FLess(score, Hundred) THEN score ELSE Hundred
    IN IF FLess(Zero, lo) THEN lo ELSE Zero

Mean(xs) == FDiv(FSum(xs), Lit(Len(xs), 1))

\* (v - mean) ** 2
SquaredDeviation(v, mean) == FMul(FSub(v, mean), FSub(v, mean))

\* sum((v - mean) ** 2 for v in xs) / len(xs)
VarianceAbout(xs, mean) ==
    FDiv(FSum([i \in 1..Len(xs) |-> SquaredDeviation(xs[i], mean)]), Lit(Len(xs), 1))

Variance(xs) == VarianceAbout(xs, Mean(xs))

\* variance ** 0.5
SqrtOrZero(variance) == IF variance.m = 0 THEN Zero ELSE FSqrt(variance)

StdDev(xs) == SqrtOrZero(Variance(xs))

ZScore(v, mean, std_dev, higher_is_better) ==
    LET z0 == FDiv(FSub(v, mean), std_dev)
        z == IF higher_is_better THEN z0 ELSE FNeg(z0)
    IN Clamp(FAdd(Fifty, FMul(z, ZScale)))

\* the result of normalize_zscore once mean and std_dev are known
ZScores(values, mean, std_dev, higher_is_better) ==
    IF std_dev.m = 0 THEN AllFifty(values)
    ELSE [i \in 1..Len(values) |->
             IF IsNum(values[i])
             THEN ZScore(values[i], mean, std_dev, higher_is_better)
             ELSE None]

normalize_zscore(values, higher_is_better) ==
    IF Len(ValidValues(values)) < 2 THEN AllFifty(values)
    ELSE ZScores(values, Mean(ValidValues(values)), StdDev(ValidValues(values)),
                 higher_is_better)

Normalize(normalization, values, higher_is_better) ==
    IF normalization = "zscore" THEN normalize_zscore(values, higher_is_better)
    ELSE normalize_minmax(values, higher_is_better)

\* ------------------------------------------------------------------------
\* Inputs of the model
\* ------------------------------------------------------------------------
\* the metric keys of the weight vector, in the iteration order of the dict
MetricKeys == <<"ev_to_fcf", "revenue_cagr">>

\* StockScorer.higher_is_better.get(metric_key, True)
HigherIsBetter(metric_key) ==
    IF metric_key \in {"ev_to_fcf", "net_debt_to_ebitda", "capex_intensity",
                       "net_debt_to_fcf"}
    THEN FALSE ELSE TRUE

Ten == Lit(10, 1)
Twenty == Lit(20, 1)
Thirty == Lit(30, 1)
One == Lit(1, 1)
OneHalf == Lit(1, 2)

\* the values a cell of the table can hold
Cells == {None, NaN, Ten, Twenty, Thirty}

MetricSet == {MetricKeys[k] : k \in 1..Len(MetricKeys)}

\* rows with a cell for both metrics
FullRows == [MetricSet -> {None, NaN, Ten, Twenty}]

\* rows without the key "revenue_cagr": .get("revenue_cagr") is None
ShortRows == { r \in [MetricSet -> Cells] : r["revenue_cagr"] = None }

\* tables of up to NumTickers full rows
FullTables == UNION { [1..n -> FullRows] : n \in 0..NumTickers }

\* tables of up to MaxPeers rows that only have the first metric
ShortTables == UNION { [1..n -> ShortRows] : n \in 1..MaxPeers }

\* the weight vectors tried, aligned with MetricKeys
WeightVectors ==
    { <<One, Zero>>, <<OneHalf, OneHalf>>, <<Lit(33, 100), Lit(67, 100)>> }

\* the (table, weight vector) pairs tried: the full tables with every
\* weight vector, the single-metric tables with the single-metric vector
Inputs ==
    (FullTables \X WeightVectors) \cup (ShortTables \X {<<One, Zero>>})

\* ------------------------------------------------------------------------
\* State
\* ------------------------------------------------------------------------
VARIABLES
    stocks_data,        \* the metric value table: ticker index -> metric key -> cell
    weights,            \* self.weights, aligned with MetricKeys
    normalization,      \* self.normalization
    fill_missing_with_median,
    pc,                 \* position in calculate_scores / which normalizer ran
    mi,                 \* index of the metric the loop is about to process
    values,             \* the column of the metric last processed, after imputation
    higher_better,      \* direction of the metric last processed
    normalized,         \* the normalized column of the metric last processed
    scores,             \* running, then final, composite score per ticker
    actual_weights      \* accumulated weight per ticker

\* the weight adjuster (apply_subsector_weights, normalize_weights)
VARIABLES
    base,               \* the base weight vector: metric key -> weight
    modifier,           \* the multipliers: metric key -> multiplier
    new_weights,        \* the returned weight vector
    adjust_pc           \* "idle", "call", "returned" or "raised"

\* a scorer object and the calls made on it
VARIABLES
    given_weights,      \* the weights argument of StockScorer(...)
    warned,             \* the constructor printed the weight-sum warning
    calls,              \* number of calculate_scores calls started so far
    first_scores,       \* what the first calculate_scores call returned
    in_detailed,        \* the running calculate_scores was called by get_detailed_scores
    detailed            \* what get_detailed_scores builds: the normalized column of
                        \* each metric (metric_scores) and the composites (total_score)

\* the ranking of the composite scores
VARIABLES
    sorted_scores       \* the tickers (indices into scores) in ranking order

\* StockScreener.screen_multiple
VARIABLES
    tickers,            \* the requested ticker list
    parallel,           \* the parallel argument
    max_workers,        \* the max_workers argument
    screen_pc,          \* position of the calling thread in screen_multiple
    next_entry,         \* the entry the calling thread submits or fetches next
    task,               \* per entry: "new", "pending", "running", "done" or "raised"
    task_result,        \* per entry: the row its screen_stock call returned
    starts,             \* per entry: how many times its screen_stock call was started
    yielded,            \* the entries as_completed has already yielded
    completed,          \* the completed counter
    results             \* the results dict: <<ticker, row>> pairs in insertion order

\* a second calculate_scores call on inputs derived from those of the first
VARIABLES
    first_data,         \* the table the first call was given
    first_weights,      \* the weights of the first call
    order               \* per row of the table: the row of first_data that holds
                        \* the same instrument

\* the metric calculators (EVToFCFMetric, InterestCoverageMetric)
VARIABLES
    valuation_data,     \* per ticker: what provider.get_valuation_data returns
    leverage_data,      \* what provider.get_leverage_data returns
    coverage,           \* what InterestCoverageMetric.calculate returned
    metric_pc           \* "idle", "call", "calculated", "normalized"

\* the results cache (save_results, load_cached_results)
VARIABLES
    cache_file,         \* the parsed content of CACHE_FILE: row -> key -> JSON value
    loaded,             \* what load_cached_results returned
    cache_pc            \* "idle", "fetched", "saved", "loaded"

scorer_vars == <<stocks_data, weights, normalization, fill_missing_with_median, pc, mi,
                 values, higher_better, normalized, scores, actual_weights>>

scorer_vars_but_pc ==
    <<stocks_data, weights, normalization, fill_missing_with_median, mi,
      values, higher_better, normalized, scores, actual_weights>>

adjuster_vars == <<base, modifier, new_weights, adjust_pc>>

session_vars == <<given_weights, warned, calls, first_scores, in_detailed, detailed>>

rank_vars == <<sorted_scores>>

screen_vars == <<tickers, parallel, max_workers, screen_pc, next_entry, task,
                 task_result, starts, yielded, completed, results>>

rerun_vars == <<first_data, first_weights, order>>

metric_vars == <<valuation_data, leverage_data, coverage, metric_pc>>

cache_vars == <<cache_file, loaded, cache_pc>>

\* the callers of the scorer, the metric calculators and the cache
other_vars == <<rerun_vars, metric_vars, cache_vars>>

\* what calculate_scores and the normalizers have no access to
outside_scorer == <<adjuster_vars, session_vars, rank_vars, screen_vars, other_vars>>

\* what a scorer object and its caller have no access to
outside_session == <<adjuster_vars, rank_vars, screen_vars, other_vars>>

vars == <<scorer_vars, adjuster_vars, session_vars, rank_vars, screen_vars,
         other_vars>>

\* the empty dict
EmptyMap == [k \in {} |-> Zero]

\* no weight adjustment is under way
AdjusterIdle ==
    /\ base = EmptyMap
    /\ modifier = EmptyMap
    /\ new_weights = EmptyMap
    /\ adjust_pc = "idle"

\* no ranking has been built
RankIdle == sorted_scores = <<>>

\* screen_multiple has not been called
ScreenIdle ==
    /\ tickers = <<>>
    /\ parallel = TRUE
    /\ max_workers = 1
    /\ screen_pc = "idle"
    /\ next_entry = 1
    /\ task = <<>>
    /\ task_result = <<>>
    /\ starts = <<>>
    /\ yielded = {}
    /\ completed = 0
    /\ results = <<>>

\* no second call has been derived from the first
RerunIdle ==
    /\ first_data = <<>>
    /\ first_weights = <<>>
    /\ order = <<>>

\* no metric is being calculated
MetricsIdle ==
    /\ valuation_data = <<>>
    /\ leverage_data = <<>>
    /\ coverage = None
    /\ metric_pc = "idle"

\* the cache is not in use
CacheIdle ==
    /\ cache_file = <<>>
    /\ loaded = <<>>
    /\ cache_pc = "idle"

\* get_detailed_scores has returned nothing (yet)
NoDetails == [metric_scores |-> <<>>, total_score |-> <<>>]

\* a scorer that was constructed without a warning and is in its first call
SessionIdle ==
    /\ given_weights = <<>>
    /\ warned = FALSE
    /\ calls = 1
    /\ first_scores = <<>>
    /\ in_detailed = FALSE
    /\ detailed = NoDetails

NTickers == Len(stocks_data)

\* [stocks_data[ticker].get(metric_key) for ticker in tickers]
Column(k) == [i \in 1..NTickers |-> stocks_data[i][MetricKeys[k]]]

\* Median that takes the smallest valid value
Median_Smallest(valid_values) == FMin(valid_values)

\* Median that takes index (len - 1) // 2 of the sorted values
Median_LowerMiddle(valid_values) ==
    SortSeq(valid_values, FLess)[((Len(valid_values) - 1) \div 2) + 1]

\* Median that indexes the valid values in table order, without sorting
Median_Unsorted(valid_values) == valid_values[(Len(valid_values) \div 2) + 1]

\* sorted(valid_values)[len(valid_values) // 2]
Median(valid_values) ==
    SortSeq(valid_values, FLess)[(Len(valid_values) \div 2) + 1]

\* Impute that replaces not-applicable cells as well as missing ones
Impute_FillsNaN(col, fill) ==
    LET valid_values == ValidValues(col)
    IN IF fill /\ Len(valid_values) > 0
       THEN [i \in 1..Len(col) |-> IF IsNum(col[i]) THEN col[i] ELSE Median(valid_values)]
       ELSE col

\* Impute that fills the missing cells whatever the toggle says
Impute_IgnoresToggle(col, fill) ==
    LET valid_values == ValidValues(col)
    IN IF Len(valid_values) > 0
       THEN [i \in 1..Len(col) |-> IF col[i] = None THEN Median(valid_values) ELSE col[i]]
       ELSE col

\* the column after imputation (lines 174-177)
Impute(col, fill) ==
    LET valid_values == ValidValues(col)
    IN IF fill /\ Len(valid_values) > 0
       THEN [i \in 1..Len(col) |-> IF col[i] = None THEN Median(valid_values) ELSE col[i]]
       ELSE col

Init ==
    /\ \E input \in Inputs :
          /\ stocks_data = input[1]
          /\ weights = input[2]
    /\ normalization \in {"minmax", "zscore"}
    /\ fill_missing_with_median \in BOOLEAN
    /\ pc = "start"
    /\ mi = 1
    /\ values = <<>>
    /\ higher_better = TRUE
    /\ normalized = <<>>
    /\ scores = <<>>
    /\ actual_weights = <<>>
    /\ AdjusterIdle
    /\ SessionIdle
    /\ RankIdle
    /\ ScreenIdle
    /\ RerunIdle
    /\ MetricsIdle
    /\ CacheIdle

\* calculate_scores on an empty table returns {} (lines 150-151)
ReturnEmpty ==
    /\ pc = "start"
    /\ NTickers = 0
    /\ pc' = "done"
    /\ UNCHANGED <<stocks_data, weights, normalization, fill_missing_with_median,
                   mi, values, higher_better, normalized, scores, actual_weights>>
    /\ UNCHANGED outside_scorer

\* Begin that goes on from the scores of the previous call when there are any
Begin_KeepsScores ==
    /\ pc = "start"
    /\ NTickers > 0
    /\ scores' = IF Len(scores) = NTickers THEN scores ELSE [i \in 1..NTickers |-> Zero]
    /\ actual_weights' = [i \in 1..NTickers |-> Zero]
    /\ mi' = 1
    /\ pc' = "loop"
    /\ UNCHANGED <<stocks_data, weights, normalization, fill_missing_with_median,
                   values, higher_better, normalized>>
    /\ UNCHANGED outside_scorer

\* scores and actual_weights start at 0.0 for every ticker (lines 153-157)
Begin ==
    /\ pc = "start"
    /\ NTickers > 0
    /\ scores' = [i \in 1..NTickers |-> Zero]
    /\ actual_weights' = [i \in 1..NTickers |-> Zero]
    /\ mi' = 1
    /\ pc' = "loop"
    /\ UNCHANGED <<stocks_data, weights, normalization, fill_missing_with_median,
                   values, higher_better, normalized>>
    /\ UNCHANGED outside_scorer

\* SkipZeroWeight without the early continue: a missing cell of the
\* zero-weight metric marks the ticker's score as undefined
SkipZeroWeight_MarksMissing ==
    /\ pc = "loop"
    /\ mi <= Len(MetricKeys)
    /\ weights[mi].m = 0
    /\ mi' = mi + 1
    /\ scores' = [i \in 1..NTickers |-> IF Column(mi)[i] = None THEN None ELSE scores[i]]
    /\ UNCHANGED <<stocks_data, weights, normalization, fill_missing_with_median,
                   pc, values, higher_better, normalized, actual_weights>>
    /\ UNCHANGED outside_scorer

\* a metric of weight 0 is passed over (lines 161-162)
SkipZeroWeight ==
    /\ pc = "loop"
    /\ mi <= Len(MetricKeys)
    /\ weights[mi].m = 0
    /\ mi' = mi + 1
    /\ UNCHANGED <<stocks_data, weights, normalization, fill_missing_with_median,
                   pc, values, higher_better, normalized, scores, actual_weights>>
    /\ UNCHANGED outside_scorer

\* SkipNoSignal without the early continue: the all-missing normalized
\* column marks every ticker that is not not-applicable as undefined
SkipNoSignal_MarksUndefined ==
    /\ pc = "loop"
    /\ mi <= Len(MetricKeys)
    /\ weights[mi].m # 0
    /\ Len(ValidValues(Column(mi))) = 0
    /\ mi' = mi + 1
    /\ scores' = [i \in 1..NTickers |-> IF Column(mi)[i] = NaN THEN scores[i] ELSE None]
    /\ UNCHANGED <<stocks_data, weights, normalization, fill_missing_with_median,
                   pc, values, higher_better, normalized, actual_weights>>
    /\ UNCHANGED outside_scorer

\* a metric without any valid value in the peer group is passed over (lines 165-172)
SkipNoSignal ==
    /\ pc = "loop"
    /\ mi <= Len(MetricKeys)
    /\ weights[mi].m # 0
    /\ Len(ValidValues(Column(mi))) = 0
    /\ mi' = mi + 1
    /\ UNCHANGED <<stocks_data, weights, normalization, fill_missing_with_median,
                   pc, values, higher_better, normalized, scores, actual_weights>>
    /\ UNCHANGED outside_scorer

\* ScoreAfter that starts an undefined score again from the next valid metric
ScoreAfter_Revives(i, vals, norm, weight) ==
    IF vals[i] = NaN THEN scores[i]
    ELSE IF norm[i] = None THEN None
    ELSE IF scores[i] = None THEN FMul(norm[i], weight)
    ELSE FAdd(scores[i], FMul(norm[i], weight))

\* the inner loop over the tickers (lines 189-205), for ticker i
ScoreAfter(i, vals, norm, weight) ==
    IF scores[i] = None THEN None
    ELSE IF vals[i] = NaN THEN scores[i]
    ELSE IF norm[i] # None THEN FAdd(scores[i], FMul(norm[i], weight))
    ELSE None

\* WeightAfter that also counts the weight of a not-applicable metric
WeightAfter_CountsNaN(i, vals, norm, weight) ==
    IF scores[i] = None THEN actual_weights[i]
    ELSE IF norm[i] # None \/ vals[i] = NaN THEN FAdd(actual_weights[i], weight)
    ELSE actual_weights[i]

WeightAfter(i, vals, norm, weight) ==
    IF scores[i] = None THEN actual_weights[i]
    ELSE IF vals[i] = NaN THEN actual_weights[i]
    ELSE IF norm[i] # None THEN FAdd(actual_weights[i], weight)
    ELSE actual_weights[i]

\* ApplyMetric that stores the imputed column in the caller's table
ApplyMetric_WritesBack ==
    /\ pc = "loop"
    /\ mi <= Len(MetricKeys)
    /\ weights[mi].m # 0
    /\ Len(ValidValues(Column(mi))) > 0
    /\ values' = Impute(Column(mi), fill_missing_with_median)
    /\ higher_better' = HigherIsBetter(MetricKeys[mi])
    /\ normalized' = Normalize(normalization, values', higher_better')
    /\ scores' = [i \in 1..NTickers |-> ScoreAfter(i, values', normalized', weights[mi])]
    /\ actual_weights' =
          [i \in 1..NTickers |-> WeightAfter(i, values', normalized', weights[mi])]
    /\ mi' = mi + 1
    /\ stocks_data' =
          [i \in 1..NTickers |-> [stocks_data[i] EXCEPT ![MetricKeys[mi]] = values'[i]]]
    /\ UNCHANGED <<weights, normalization, fill_missing_with_median, pc>>
    /\ UNCHANGED outside_scorer

\* one iteration of the metric loop: impute, normalize, weigh (lines 165-205)
ApplyMetric ==
    /\ pc = "loop"
    /\ mi <= Len(MetricKeys)
    /\ weights[mi].m # 0
    /\ Len(ValidValues(Column(mi))) > 0
    /\ values' = Impute(Column(mi), fill_missing_with_median)
    /\ higher_better' = HigherIsBetter(MetricKeys[mi])
    /\ normalized' = Normalize(normalization, values', higher_better')
    /\ scores' = [i \in 1..NTickers |-> ScoreAfter(i, values', normalized', weights[mi])]
    /\ actual_weights' =
          [i \in 1..NTickers |-> WeightAfter(i, values', normalized', weights[mi])]
    /\ mi' = mi + 1
    /\ UNCHANGED <<stocks_data, weights, normalization, fill_missing_with_median, pc>>
    /\ UNCHANGED outside_scorer

\* Rescaled that returns the weighted sum without dividing by the weight
Rescaled_Undivided(i) == scores[i]

\* the final score of ticker i (lines 210-213)
Rescaled(i) ==
    IF scores[i] # None /\ FLess(Zero, actual_weights[i])
    THEN FDiv(scores[i], actual_weights[i])
    ELSE scores[i]

\* after the last metric the scores are rescaled and returned (lines 207-215)
Rescale ==
    /\ pc = "loop"
    /\ mi > Len(MetricKeys)
    /\ scores' = [i \in 1..NTickers |-> Rescaled(i)]
    /\ pc' = "done"
    /\ UNCHANGED <<stocks_data, weights, normalization, fill_missing_with_median,
                   mi, values, higher_better, normalized, actual_weights>>
    /\ UNCHANGED outside_scorer

Next ==
    \/ ReturnEmpty
    \/ Begin
    \/ SkipZeroWeight
    \/ SkipNoSignal
    \/ ApplyMetric
    \/ Rescale

Spec == Init /\ [][Next]_vars

\* ------------------------------------------------------------------------
\* The normalizers on their own: a column and a direction are drawn, then
\* one of the two normalizers is applied to it
\* ------------------------------------------------------------------------
Tenth == Lit(1, 10)
MinusTen == Lit(-10, 1)

NormCells == {None, NaN, MinusTen, Tenth, Ten, Twenty}

\* OutlierLen - 1 equal values followed by one different value
OutlierColumns ==
    { [i \in 1..OutlierLen |-> IF i = OutlierLen THEN b ELSE a] :
        a \in {Ten, Twenty}, b \in {MinusTen, Ten, Twenty, None} }

Columns ==
    (UNION { [1..n -> NormCells] : n \in 0..MaxColumn }) \cup OutlierColumns

InitNorm ==
    /\ values \in Columns
    /\ higher_better \in BOOLEAN
    /\ pc = "norm"
    /\ normalized = <<>>
    /\ stocks_data = <<>>
    /\ weights = <<Zero, Zero>>
    /\ normalization = "minmax"
    /\ fill_missing_with_median = TRUE
    /\ mi = 1
    /\ scores = <<>>
    /\ actual_weights = <<>>
    /\ AdjusterIdle
    /\ SessionIdle
    /\ RankIdle
    /\ ScreenIdle
    /\ RerunIdle
    /\ MetricsIdle
    /\ CacheIdle

RunMinmax ==
    /\ pc = "norm"
    /\ normalized' = normalize_minmax(values, higher_better)
    /\ pc' = "minmax"
    /\ UNCHANGED <<stocks_data, weights, normalization, fill_missing_with_median,
                   mi, values, higher_better, scores, actual_weights>>
    /\ UNCHANGED outside_scorer

RunZscore ==
    /\ pc = "norm"
    /\ normalized' = normalize_zscore(values, higher_better)
    /\ pc' = "zscore"
    /\ UNCHANGED <<stocks_data, weights, normalization, fill_missing_with_median,
                   mi, values, higher_better, scores, actual_weights>>
    /\ UNCHANGED outside_scorer

NextNorm ==
    \/ RunMinmax
    \/ RunZscore

SpecNorm == InitNorm /\ [][NextNorm]_vars

\* ------------------------------------------------------------------------
\* The weight adjuster: apply_subsector_weights (main.py, score_weights.py)
\* and normalize_weights (run_business_model.py)
\* ------------------------------------------------------------------------
\* no scorer call is under way
ScorerIdle ==
    /\ stocks_data = <<>>
    /\ weights = <<Zero, Zero>>
    /\ normalization = "minmax"
    /\ fill_missing_with_median = TRUE
    /\ pc = "idle"
    /\ mi = 1
    /\ values = <<>>
    /\ higher_better = TRUE
    /\ normalized = <<>>
    /\ scores = <<>>
    /\ actual_weights = <<>>

\* the keys a modifier can have: those of base and one that base lacks
ModifierKeys == MetricSet \cup {"rule_of_40"}

BaseWeights == {Zero, Tenth, Lit(3, 10), OneHalf}

Multipliers == {Zero, Lit(-1, 1), OneHalf, Lit(11, 10), Lit(2, 1)}

\* Multiplier with a default of 0.0
Multiplier_DefaultZero(mod, k) == IF k \in DOMAIN mod THEN mod[k] ELSE Zero

\* modifier.get(k, 1.0)
Multiplier(mod, k) == IF k \in DOMAIN mod THEN mod[k] ELSE One

\* new_weights[k] = base[k] * multiplier, for every key of base
Products(b, mod) == [k \in DOMAIN b |-> FMul(b[k], Multiplier(mod, k))]

\* sum(w.values()), the values taken in the insertion order of the keys
Total(w) == FSum([i \in 1..Len(MetricKeys) |-> w[MetricKeys[i]]])

\* {k: v / total for k, v in w.items()}
Divided(w, total) == [k \in DOMAIN w |-> FDiv(w[k], total)]

\* the dict returned for the products w and their sum total
Renormalized(w, total) == IF FLess(Zero, total) THEN Divided(w, total) ELSE w

apply_subsector_weights(b, mod) == Renormalized(Products(b, mod), Total(Products(b, mod)))

InitAdjust ==
    /\ base \in [MetricSet -> BaseWeights]
    /\ modifier \in UNION { [D -> Multipliers] : D \in SUBSET ModifierKeys }
    /\ new_weights = EmptyMap
    /\ adjust_pc = "call"
    /\ ScorerIdle
    /\ SessionIdle
    /\ RankIdle
    /\ ScreenIdle
    /\ RerunIdle
    /\ MetricsIdle
    /\ CacheIdle

\* apply_subsector_weights(base, modifier)
ApplySubsectorWeights ==
    /\ adjust_pc = "call"
    /\ new_weights' = apply_subsector_weights(base, modifier)
    /\ adjust_pc' = "returned"
    /\ UNCHANGED <<base, modifier, scorer_vars, session_vars, rank_vars, screen_vars,
                   other_vars>>

\* normalize_weights(base): raises ValueError when the sum is not positive
NormalizeWeights ==
    /\ adjust_pc = "call"
    /\ IF FLeq(Total(base), Zero)
       THEN /\ adjust_pc' = "raised"
            /\ UNCHANGED new_weights
       ELSE /\ adjust_pc' = "normalized"
            /\ new_weights' = Divided(base, Total(base))
    /\ UNCHANGED <<base, modifier, scorer_vars, session_vars, rank_vars, screen_vars,
                   other_vars>>

NextAdjust ==
    \/ ApplySubsectorWeights
    \/ NormalizeWeights

SpecAdjust == InitAdjust /\ [][NextAdjust]_vars

\* ------------------------------------------------------------------------
\* A scorer object: StockScorer(weights, normalization), two calls of
\* calculate_scores on the same table, then get_detailed_scores
\* ------------------------------------------------------------------------
\* rows of the tables scored in a session
SessionRows == [MetricSet -> {None, Ten, Twenty}]

SessionTables == UNION { [1..n -> SessionRows] : n \in 0..NumTickers }

\* weight vectors whose sum is 1.0, on either end of the band [0.99, 1.01],
\* just below it and far outside it
SessionWeights ==
    { <<OneHalf, OneHalf>>, <<One, Zero>>, <<Lit(99, 100), Zero>>,
      <<Lit(101, 100), Zero>>, <<Lit(98, 100), Zero>>, <<One, OneHalf>> }

\* WeightSumOk with the bounds excluded
WeightSumOk_Open(weight_sum) ==
    FLess(Lit(99, 100), weight_sum) /\ FLess(weight_sum, Lit(101, 100))

\* 0.99 <= weight_sum <= 1.01
WeightSumOk(weight_sum) ==
    FLeq(Lit(99, 100), weight_sum) /\ FLeq(weight_sum, Lit(101, 100))

InitSession ==
    /\ stocks_data \in SessionTables
    /\ given_weights \in SessionWeights
    /\ normalization \in {"minmax", "zscore"}
    /\ fill_missing_with_median \in BOOLEAN
    /\ pc = "new"
    /\ weights = <<>>
    /\ mi = 1
    /\ values = <<>>
    /\ higher_better = TRUE
    /\ normalized = <<>>
    /\ scores = <<>>
    /\ actual_weights = <<>>
    /\ warned = FALSE
    /\ calls = 0
    /\ first_scores = <<>>
    /\ in_detailed = FALSE
    /\ detailed = NoDetails
    /\ AdjusterIdle
    /\ RankIdle
    /\ ScreenIdle
    /\ RerunIdle
    /\ MetricsIdle
    /\ CacheIdle

\* StockScorer.__init__: the weights are stored as given; a sum outside
\* [0.99, 1.01] only prints a warning (lines 24-25, 52-55)
Construct ==
    /\ pc = "new"
    /\ weights' = given_weights
    /\ warned' = ~WeightSumOk(FSum(given_weights))
    /\ pc' = "constructed"
    /\ UNCHANGED <<stocks_data, normalization, fill_missing_with_median, mi, values,
                   higher_better, normalized, scores, actual_weights>>
    /\ UNCHANGED <<given_weights, calls, first_scores, in_detailed, detailed>>
    /\ UNCHANGED outside_session

\* the caller calls scorer.calculate_scores(stocks_data), keeping what the
\* previous call returned
CallCalculateScores ==
    /\ pc \in {"constructed", "done"}
    /\ ~in_detailed
    /\ calls < 2
    /\ calls' = calls + 1
    /\ first_scores' = IF calls = 1 THEN scores ELSE first_scores
    /\ pc' = "start"
    /\ UNCHANGED <<stocks_data, weights, normalization, fill_missing_with_median, mi,
                   values, higher_better, normalized, scores, actual_weights>>
    /\ UNCHANGED <<given_weights, warned, in_detailed, detailed>>
    /\ UNCHANGED outside_session

\* the normalized raw column of every metric of the weight vector
\* (get_detailed_scores, lines 231-242)
MetricScores ==
    [k \in 1..Len(MetricKeys) |->
        Normalize(normalization, Column(k), HigherIsBetter(MetricKeys[k]))]

\* get_detailed_scores up to its call of calculate_scores, which runs with
\* the default fill_missing_with_median=True (lines 225-245)
GetDetailedScores ==
    /\ pc = "done"
    /\ ~in_detailed
    /\ calls = 2
    /\ IF NTickers = 0
       THEN /\ pc' = "returned"
            /\ UNCHANGED <<in_detailed, detailed, fill_missing_with_median>>
       ELSE /\ detailed' = [detailed EXCEPT !.metric_scores = MetricScores]
            /\ in_detailed' = TRUE
            /\ fill_missing_with_median' = TRUE
            /\ pc' = "start"
    /\ UNCHANGED <<stocks_data, weights, normalization, mi, values, higher_better,
                   normalized, scores, actual_weights>>
    /\ UNCHANGED <<given_weights, warned, calls, first_scores>>
    /\ UNCHANGED outside_session

\* get_detailed_scores after calculate_scores has returned (lines 245-251)
DetailedTotal ==
    /\ pc = "done"
    /\ in_detailed
    /\ detailed' = [detailed EXCEPT !.total_score = scores]
    /\ pc' = "returned"
    /\ UNCHANGED scorer_vars_but_pc
    /\ UNCHANGED <<given_weights, warned, calls, first_scores, in_detailed>>
    /\ UNCHANGED outside_session

NextSession ==
    \/ Construct
    \/ CallCalculateScores
    \/ GetDetailedScores
    \/ DetailedTotal
    \/ ReturnEmpty
    \/ Begin
    \/ SkipZeroWeight
    \/ SkipNoSignal
    \/ ApplyMetric
    \/ Rescale

SpecSession == InitSession /\ [][NextSession]_vars

\* ------------------------------------------------------------------------
\* The ranking of the composite scores (main.py, run_business_model.py):
\* sorted(scores.items(), key=lambda x: x[1] if x[1] is not None else -1,
\*        reverse=True)
\* ------------------------------------------------------------------------
\* the composite scores ranked: undefined, or a number from 0 to 100
RankedScores == {None, Zero, Fifty, Hundred}

\* RankKey that gives an undefined score the key 50
RankKey_NoneAsFifty(score) == IF score # None THEN score ELSE Fifty

\* the sort key: x[1] if x[1] is not None else -1
RankKey(score) == IF score # None THEN score ELSE Lit(-1, 1)

\* t is placed before u by a descending sort when its key is not smaller
NotAfter(t, u, sc) == ~FLess(RankKey(sc[t]), RankKey(sc[u]))

\* ranked with t inserted behind the items whose key is at least that of
\* t: the sort is stable, items with equal keys keep their order
InsertRanked(ranked, t, sc) ==
    SelectSeq(ranked, LAMBDA u : NotAfter(u, t, sc))
        \o <<t>> \o SelectSeq(ranked, LAMBDA u : ~NotAfter(u, t, sc))

RECURSIVE SortedDescending(_, _)
\* the first n items of sc in ranking order
SortedDescending(n, sc) ==
    IF n = 0 THEN <<>> ELSE InsertRanked(SortedDescending(n - 1, sc), n, sc)

InitRank ==
    /\ scores \in UNION { [1..n -> RankedScores] : n \in 0..RankLen }
    /\ sorted_scores = <<>>
    /\ pc = "scored"
    /\ stocks_data = <<>>
    /\ weights = <<Zero, Zero>>
    /\ normalization = "minmax"
    /\ fill_missing_with_median = TRUE
    /\ mi = 1
    /\ values = <<>>
    /\ higher_better = TRUE
    /\ normalized = <<>>
    /\ actual_weights = <<>>
    /\ AdjusterIdle
    /\ SessionIdle
    /\ ScreenIdle
    /\ RerunIdle
    /\ MetricsIdle
    /\ CacheIdle

\* the ranking is built from the scores
Rank ==
    /\ pc = "scored"
    /\ sorted_scores' = SortedDescending(Len(scores), scores)
    /\ pc' = "ranked"
    /\ UNCHANGED scorer_vars_but_pc
    /\ UNCHANGED <<adjuster_vars, session_vars, screen_vars, other_vars>>

NextRank == Rank

SpecRank == InitRank /\ [][NextRank]_vars

\* ------------------------------------------------------------------------
\* StockScreener.screen_stock and screen_multiple (src/stock_screener.py).
\* Tickers are numbered; the calling thread submits one screen_stock task
\* per entry to a pool of max_workers threads and collects the futures as
\* they complete, or fetches the entries one by one when parallel is off.
\* ------------------------------------------------------------------------
\* what the metrics compute for ticker t when nothing fails
Fetched(t) == [k \in MetricSet |-> IF k = MetricKeys[1] THEN Lit(t, 1) ELSE Twenty]

\* the sets of metrics whose calculate() can raise during one screen_stock
Failures == { {}, {MetricKeys[2]}, MetricSet }

\* screen_stock(t) when calculate() raises for the metrics in failing: a
\* metric that raises is recorded as None (lines 66-73)
screen_stock(t, failing) ==
    [k \in MetricSet |-> IF k \in failing THEN None ELSE Fetched(t)[k]]

\* {metric.get_key(): None for metric in self.metrics}
AllMissing == [k \in MetricSet |-> None]

Entries == 1..Len(tickers)

\* the position of ticker t in the results dict, 0 if it has no row
RECURSIVE PositionFrom(_, _, _)
PositionFrom(res, t, p) ==
    IF p > Len(res) THEN 0
    ELSE IF res[p].ticker = t THEN p
    ELSE PositionFrom(res, t, p + 1)

\* results[t] = row: a new key is added at the end, a known key keeps its place
Put(res, t, row) ==
    IF PositionFrom(res, t, 1) = 0
    THEN Append(res, [ticker |-> t, row |-> row])
    ELSE [res EXCEPT ![PositionFrom(res, t, 1)] = [ticker |-> t, row |-> row]]

InitScreen ==
    /\ tickers \in { [i \in 1..n |-> i] : n \in 0..NumScreened }
    /\ parallel \in BOOLEAN
    /\ max_workers \in 1..MaxWorkers
    /\ screen_pc = "call"
    /\ next_entry = 1
    /\ task = [i \in Entries |-> "new"]
    /\ task_result = [i \in Entries |-> EmptyMap]
    /\ starts = [i \in Entries |-> 0]
    /\ yielded = {}
    /\ completed = 0
    /\ results = <<>>
    /\ ScorerIdle
    /\ AdjusterIdle
    /\ SessionIdle
    /\ RankIdle
    /\ RerunIdle
    /\ MetricsIdle
    /\ CacheIdle

\* parallel off: the next entry is fetched in the calling thread; an
\* exception of screen_stock leaves screen_multiple (lines 87-94)
SequentialFetch ==
    /\ ~parallel
    /\ screen_pc = "call"
    /\ next_entry <= Len(tickers)
    /\ starts' = [starts EXCEPT ![next_entry] = @ + 1]
    /\ \/ \E failing \in Failures :
             /\ task' = [task EXCEPT ![next_entry] = "done"]
             /\ task_result' =
                   [task_result EXCEPT ![next_entry] = screen_stock(tickers[next_entry], failing)]
             /\ results' = Put(results, tickers[next_entry], task_result'[next_entry])
             /\ next_entry' = next_entry + 1
             /\ UNCHANGED screen_pc
       \/ /\ task' = [task EXCEPT ![next_entry] = "raised"]
          /\ screen_pc' = "raised"
          /\ UNCHANGED <<task_result, results, next_entry>>
    /\ UNCHANGED <<tickers, parallel, max_workers, yielded, completed>>
    /\ UNCHANGED <<scorer_vars, adjuster_vars, session_vars, rank_vars, other_vars>>

\* parallel off: the loop is over, results is returned (line 95)
SequentialReturn ==
    /\ ~parallel
    /\ screen_pc = "call"
    /\ next_entry > Len(tickers)
    /\ screen_pc' = "returned"
    /\ UNCHANGED <<tickers, parallel, max_workers, next_entry, task, task_result,
                   starts, yielded, completed, results>>
    /\ UNCHANGED <<scorer_vars, adjuster_vars, session_vars, rank_vars, other_vars>>

\* executor.submit(self.screen_stock, ticker) for the next entry (line 104)
Submit ==
    /\ parallel
    /\ screen_pc = "call"
    /\ next_entry <= Len(tickers)
    /\ task' = [task EXCEPT ![next_entry] = "pending"]
    /\ next_entry' = next_entry + 1
    /\ UNCHANGED <<tickers, parallel, max_workers, screen_pc, task_result, starts,
                   yielded, completed, results>>
    /\ UNCHANGED <<scorer_vars, adjuster_vars, session_vars, rank_vars, other_vars>>

Running == {i \in Entries : task[i] = "running"}

\* StartTask that also takes up a task that has raised
StartTask_Retries ==
    \E i \in Entries :
        /\ task[i] \in {"pending", "raised"}
        /\ Cardinality(Running) < max_workers
        /\ task' = [task EXCEPT ![i] = "running"]
        /\ starts' = [starts EXCEPT ![i] = @ + 1]
        /\ UNCHANGED <<tickers, parallel, max_workers, screen_pc, next_entry, task_result,
                       yielded, completed, results>>
        /\ UNCHANGED <<scorer_vars, adjuster_vars, session_vars, rank_vars, other_vars>>

\* a free worker thread takes the oldest pending task from the queue
StartTask ==
    \E i \in Entries :
        /\ task[i] = "pending"
        /\ \A j \in Entries : j < i => task[j] # "pending"
        /\ Cardinality(Running) < max_workers
        /\ task' = [task EXCEPT ![i] = "running"]
        /\ starts' = [starts EXCEPT ![i] = @ + 1]
        /\ UNCHANGED <<tickers, parallel, max_workers, screen_pc, next_entry, task_result,
                       yielded, completed, results>>
        /\ UNCHANGED <<scorer_vars, adjuster_vars, session_vars, rank_vars, other_vars>>

\* the screen_stock call of entry i ends: it returns its row, or raises
FinishTask ==
    \E i \in Entries :
        /\ task[i] = "running"
        /\ \/ \E failing \in Failures :
                 /\ task' = [task EXCEPT ![i] = "done"]
                 /\ task_result' = [task_result EXCEPT ![i] = screen_stock(tickers[i], failing)]
           \/ /\ task' = [task EXCEPT ![i] = "raised"]
              /\ UNCHANGED task_result
        /\ UNCHANGED <<tickers, parallel, max_workers, screen_pc, next_entry, starts,
                       yielded, completed, results>>
        /\ UNCHANGED <<scorer_vars, adjuster_vars, session_vars, rank_vars, other_vars>>

\* Collect without the try / except around future.result()
Collect_Propagates ==
    \E i \in Entries :
        /\ parallel
        /\ screen_pc = "call"
        /\ next_entry > Len(tickers)
        /\ i \notin yielded
        /\ task[i] \in {"done", "raised"}
        /\ yielded' = yielded \cup {i}
        /\ completed' = completed + 1
        /\ IF task[i] = "done"
           THEN results' = Put(results, tickers[i], task_result[i]) /\ UNCHANGED screen_pc
           ELSE screen_pc' = "raised" /\ UNCHANGED results
        /\ UNCHANGED <<tickers, parallel, max_workers, next_entry, task, task_result, starts>>
        /\ UNCHANGED <<scorer_vars, adjuster_vars, session_vars, rank_vars, other_vars>>

\* one iteration of the as_completed loop, for the finished future of
\* entry i (lines 107-119)
Collect ==
    \E i \in Entries :
        /\ parallel
        /\ screen_pc = "call"
        /\ next_entry > Len(tickers)
        /\ i \notin yielded
        /\ task[i] \in {"done", "raised"}
        /\ yielded' = yielded \cup {i}
        /\ completed' = completed + 1
        /\ results' = Put(results, tickers[i],
                          IF task[i] = "done" THEN task_result[i] ELSE AllMissing)
        /\ UNCHANGED <<tickers, parallel, max_workers, screen_pc, next_entry, task,
                       task_result, starts>>
        /\ UNCHANGED <<scorer_vars, adjuster_vars, session_vars, rank_vars, other_vars>>

\* every future has been yielded: the pool is shut down and results is
\* returned (line 121)
ReturnResults ==
    /\ parallel
    /\ screen_pc = "call"
    /\ next_entry > Len(tickers)
    /\ yielded = Entries
    /\ screen_pc' = "returned"
    /\ UNCHANGED <<tickers, parallel, max_workers, next_entry, task, task_result,
                   starts, yielded, completed, results>>
    /\ UNCHANGED <<scorer_vars, adjuster_vars, session_vars, rank_vars, other_vars>>

NextScreen ==
    \/ SequentialFetch
    \/ SequentialReturn
    \/ Submit
    \/ StartTask
    \/ FinishTask
    \/ Collect
    \/ ReturnResults

SpecScreen == InitScreen /\ [][NextScreen]_vars

\* ------------------------------------------------------------------------
\* Properties of the normalizers (checked under SpecNorm)
\* ------------------------------------------------------------------------
NormDone == pc \in {"minmax", "zscore"}

InRange(x) == FLeq(Zero, x) /\ FLeq(x, Hundred)

ValidAt(col) == {i \in 1..Len(col) : IsNum(col[i])}

AllValidEqual(col) == \A i, j \in ValidAt(col) : col[i] = col[j]

\* C4: for every non-empty column and both directions, every non-missing
\* output of normalize_minmax and of normalize_zscore lies in [0,100].
C4_NormalizedInRange ==
    (NormDone /\ Len(values) > 0) =>
        \A i \in 1..Len(normalized) :
            normalized[i] # None => InRange(normalized[i])

\* a z-score column in which the outlier saturates at a bound while the
\* other cells are strictly inside the range
C4_Witness ==
    /\ pc = "zscore"
    /\ Len(values) = OutlierLen
    /\ normalized[OutlierLen] \in {Zero, Hundred}
    /\ normalized[1] \notin {None, Zero, Fifty, Hundred}
    /\ InRange(normalized[1])

\* C9: min-max on a column whose valid values are not all equal maps the
\* smallest valid value to 0 and the largest to 100 when higher is better,
\* and the smallest to 100 and the largest to 0 when lower is better;
\* 10 and 20 give (0,100) and (100,0).
C9_MinmaxEndpoints ==
    (pc = "minmax" /\ ~AllValidEqual(values)) =>
        /\ \A i \in ValidAt(values) :
            /\ (\A j \in ValidAt(values) : FLeq(values[i], values[j]))
                  => normalized[i] = (IF higher_better THEN Zero ELSE Hundred)
            /\ (\A j \in ValidAt(values) : FLeq(values[j], values[i]))
                  => normalized[i] = (IF higher_better THEN Hundred ELSE Zero)
        /\ (values = <<Ten, Twenty>> /\ higher_better) => normalized = <<Zero, Hundred>>
        /\ (values = <<Ten, Twenty>> /\ ~higher_better) => normalized = <<Hundred, Zero>>

C9_Witness ==
    /\ pc = "minmax"
    /\ values = <<Ten, Twenty>>
    /\ ~higher_better
    /\ normalized = <<Hundred, Zero>>

\* C10: if all valid values of a column are equal, both normalizers return
\* exactly 50.0 for every non-missing cell, whatever the direction; and
\* normalize_zscore returns 50.0 for every non-missing cell when fewer than
\* two valid values exist.
C10_DegenerateFifty ==
    (NormDone /\ (AllValidEqual(values)
                    \/ (pc = "zscore" /\ Cardinality(ValidAt(values)) < 2))) =>
        \A i \in 1..Len(normalized) :
            normalized[i] # None => normalized[i] = Fifty

\* C11: both normalizers return a sequence of the same length and order as
\* the input, in which position i is missing if and only if input position
\* i is missing or not-applicable; a missing input is never given a number
\* (it is not scored as if it were zero).
C11_MissingAligned ==
    NormDone =>
        /\ Len(normalized) = Len(values)
        /\ \A i \in 1..Len(values) : (normalized[i] = None) <=> ~IsNum(values[i])
        /\ \A i \in 1..Len(values) : IsNum(values[i]) => IsNum(normalized[i])

\* a single valid value between a missing and a not-applicable cell
C11_Witness ==
    /\ pc = "zscore"
    /\ values = <<None, Ten, NaN>>
    /\ normalized = <<None, Fifty, None>>

\* ------------------------------------------------------------------------
\* Properties of the weight adjuster (checked under SpecAdjust)
\* ------------------------------------------------------------------------
Returned == adjust_pc = "returned"

\* the sum of the scaled weights base[k] x modifier.get(k, 1.0)
ScaledTotal ==
    Total([k \in DOMAIN base |->
              FMul(base[k], IF k \in DOMAIN modifier THEN modifier[k] ELSE One)])

\* base[k] x modifier.get(k, 1.0) divided by the sum of those products
ExpectedWeight(k) ==
    FDiv(FMul(base[k], IF k \in DOMAIN modifier THEN modifier[k] ELSE One), ScaledTotal)

\* the modifier without the keys that base does not have
OnBaseKeys(mod) == [k \in (DOMAIN mod) \cap (DOMAIN base) |-> mod[k]]

\* base {a: 0.5, b: 0.5} and modifier {a: 2.0}, a and b being the two keys
HalfHalfDoubled ==
    /\ base = [k \in MetricSet |-> OneHalf]
    /\ modifier = [k \in {MetricKeys[1]} |-> Lit(2, 1)]

\* everything C12 says except that the result sums to 1.0
AdjustedAsSpecified ==
    /\ DOMAIN new_weights = DOMAIN base
    /\ FLess(Zero, ScaledTotal) => \A k \in DOMAIN base : new_weights[k] = ExpectedWeight(k)
    /\ new_weights = apply_subsector_weights(base, OnBaseKeys(modifier))
    /\ HalfHalfDoubled =>
          /\ new_weights[MetricKeys[1]] = Lit(2, 3)
          /\ new_weights[MetricKeys[2]] = Lit(1, 3)

\* x is 1.0 up to the rounding of the divisions and of the additions: one
\* unit in the last place of 1.0 for each of them
NearOne(x) ==
    LET slack == Rnd(2 * Len(MetricKeys), 1, 1 - MantBits)
    IN FLeq(FSub(One, slack), x) /\ FLeq(x, FAdd(One, slack))

\* C12 as stated: the result of apply_subsector_weights has exactly the
\* keys of base, each weight is base[k] x modifier.get(k, 1.0) divided by
\* the sum of those products, modifier keys absent from base are ignored,
\* {a: 0.5, b: 0.5} with {a: 2.0} gives {a: 2/3, b: 1/3}, and the result
\* sums to 1.0 whenever the sum of the products is positive.
C12_SumsToOne ==
    Returned =>
        /\ AdjustedAsSpecified
        /\ FLess(Zero, ScaledTotal) => Total(new_weights) = One

\* C12 amended: as above, but the result sums to 1.0 only up to the
\* rounding of the float divisions and additions.
C12_SumsToNearlyOne ==
    Returned =>
        /\ AdjustedAsSpecified
        /\ FLess(Zero, ScaledTotal) => NearOne(Total(new_weights))

\* the example of the claim, with a modifier key that base lacks
C12_Witness ==
    /\ Returned
    /\ HalfHalfDoubled
    /\ new_weights = [k \in MetricSet |-> IF k = MetricKeys[1] THEN Lit(2, 3) ELSE Lit(1, 3)]

\* C13: the weight adjuster fails whenever the sum of the scaled weights is
\* <= 0: it never returns a weight vector in that case, neither from
\* apply_subsector_weights nor from normalize_weights.
C13_FailsOnNonPositive ==
    /\ adjust_pc = "returned" => FLess(Zero, ScaledTotal)
    /\ adjust_pc = "normalized" => FLess(Zero, Total(base))

\* ------------------------------------------------------------------------
\* Properties of calculate_scores (checked under Spec)
\* ------------------------------------------------------------------------
Done == pc = "done"

NMetrics == Len(MetricKeys)

HasValid(col) == \E i \in 1..Len(col) : IsNum(col[i])

\* the metric k is processed by the run: nonzero weight and some valid value
Processed(k) == weights[k] # Zero /\ HasValid(Column(k))

\* the normalized column of metric k, from the table alone
NormOf(k) ==
    Normalize(normalization, Impute(Column(k), fill_missing_with_median),
              HigherIsBetter(MetricKeys[k]))

\* the metric k is counted for ticker i: processed and not not-applicable
Counted(i, k) == Processed(k) /\ Column(k)[i] # NaN

\* the normalized columns of all metrics
NormAll == [k \in 1..Len(MetricKeys) |-> NormOf(k)]

RECURSIVE WeightedSum(_, _, _)
\* sum of normalized value x weight over the metrics 1..k counted for i,
\* norms being the normalized columns
WeightedSum(i, k, norms) ==
    IF k = 0 THEN Zero
    ELSE IF Counted(i, k)
         THEN FAdd(WeightedSum(i, k - 1, norms), FMul(norms[k][i], weights[k]))
         ELSE WeightedSum(i, k - 1, norms)

RECURSIVE CountedWeight(_, _)
\* sum of the weights of the metrics 1..k counted for i
CountedWeight(i, k) ==
    IF k = 0 THEN Zero
    ELSE IF Counted(i, k) THEN FAdd(CountedWeight(i, k - 1), weights[k])
         ELSE CountedWeight(i, k - 1)

\* C1: after calculate_scores has processed all metrics, an instrument
\* whose accumulated weight is zero has an undefined composite score,
\* never a number such as 0.
C1_ZeroWeightUndefined ==
    Done => \A i \in 1..NTickers :
                actual_weights[i] = Zero => scores[i] = None

\* the composite of ticker i is the weighted average of the normalized
\* columns norms over the metrics counted for it
IsWeightedAverage(i, norms) ==
    (scores[i] # None /\ FLess(Zero, actual_weights[i])) =>
        /\ actual_weights[i] = CountedWeight(i, NMetrics)
        /\ scores[i] = FDiv(WeightedSum(i, NMetrics, norms), CountedWeight(i, NMetrics))
        /\ (/\ weights = <<OneHalf, OneHalf>>
            /\ Column(1)[i] = NaN
            /\ IsNum(Column(2)[i])
            /\ Processed(1))
           => scores[i] = norms[2][i]

\* C2: for every instrument with accumulated weight > 0 and a defined
\* score, the composite equals the sum of normalized value x weight over
\* the metrics counted for it, divided by the sum of those metrics'
\* weights; a not-applicable metric adds to neither, so with m1
\* not-applicable, m2 valid and weights 0.5 / 0.5 the composite is m2's
\* normalized score.
C2_WeightedAverage ==
    Done => \A norms \in {NormAll} : \A i \in 1..NTickers : IsWeightedAverage(i, norms)

\* m1 not-applicable for the first ticker and valid for the second, m2
\* valid and different for both, weights 0.5 / 0.5: the first ticker is
\* scored on m2 alone
C2_Witness ==
    /\ Done
    /\ NTickers = 2
    /\ weights = <<OneHalf, OneHalf>>
    /\ normalization = "minmax"
    /\ Column(1) = <<NaN, Ten>>
    /\ Column(2) = <<Twenty, Ten>>
    /\ scores[1] = Hundred
    /\ actual_weights[1] = OneHalf

\* C3: with all weights in [0,1], every numeric composite score returned
\* by calculate_scores lies in [0,100].
C3_CompositeInRange ==
    (Done /\ \A k \in 1..NMetrics : FLeq(Zero, weights[k]) /\ FLeq(weights[k], One)) =>
        \A i \in 1..NTickers : scores[i] # None => InRange(scores[i])

\* the number of valid cells of col that are below x / at most x
CountBelow(col, x) == Cardinality({j \in ValidAt(col) : FLess(col[j], x)})
CountAtMost(col, x) == Cardinality({j \in ValidAt(col) : FLeq(col[j], x)})
NValid(col) == Cardinality(ValidAt(col))
ValidSet(col) == {col[j] : j \in ValidAt(col)}

\* x is a median of the valid cells of col: a valid value with at most
\* half of the valid cells below it and at most half above it
IsMedian(x, col) ==
    /\ x \in ValidSet(col)
    /\ 2 * CountBelow(col, x) <= NValid(col)
    /\ 2 * (NValid(col) - CountAtMost(col, x)) <= NValid(col)

\* the smaller / the larger of the two middle values of an even number of
\* valid cells
LowerMiddle(col) ==
    CHOOSE x \in ValidSet(col) :
        2 * CountBelow(col, x) < NValid(col) /\ 2 * CountAtMost(col, x) >= NValid(col)
UpperMiddle(col) ==
    CHOOSE x \in ValidSet(col) :
        2 * CountBelow(col, x) <= NValid(col) /\ 2 * CountAtMost(col, x) > NValid(col)

\* col with every missing cell replaced by x
Substituted(col, x) == [j \in 1..Len(col) |-> IF col[j] = None THEN x ELSE col[j]]

\* the loop is about to process metric mi, which has a nonzero weight and
\* at least one valid value
AboutToApply == pc = "loop" /\ mi <= NMetrics /\ Processed(mi)

\* the first metric has just been processed by ApplyMetric
FirstApplied == pc = "loop" /\ mi = 2 /\ Len(values) > 0

\* C5: with imputation on, an instrument whose value for a processed metric
\* is missing is normalized as if its value were the median of the valid
\* peer values, and the metric's full weight is added to its score and to
\* its accumulated weight; with peers 10, 20, 30 the imputed value is 20.
C5_MissingImputedWithMedian ==
    [][ (AboutToApply /\ fill_missing_with_median) =>
          \A i \in 1..NTickers : Column(mi)[i] = None =>
            /\ IsMedian(values'[i], Column(mi))
            /\ (NValid(Column(mi)) = 3 /\ ValidSet(Column(mi)) = {Ten, Twenty, Thirty})
                  => values'[i] = Twenty
            /\ normalized' = Normalize(normalization, Substituted(Column(mi), values'[i]),
                                       HigherIsBetter(MetricKeys[mi]))
            /\ normalized'[i] # None
            /\ scores[i] # None
            /\ scores'[i] = FAdd(scores[i], FMul(normalized'[i], weights[mi]))
            /\ actual_weights'[i] = FAdd(actual_weights[i], weights[mi]) ]_vars

\* peers 10, 20, 30 and a fourth instrument without a value: it is given 20
C5_Witness ==
    /\ FirstApplied
    /\ fill_missing_with_median
    /\ Column(1) = <<Ten, None, Thirty, Twenty>>
    /\ values = <<Ten, Twenty, Thirty, Twenty>>
    /\ normalized[2] = normalized[4]
    /\ actual_weights[2] = weights[1]
    /\ scores[2] = FMul(normalized[2], weights[1])

\* C6 as stated: with an even number of valid values the median used for
\* imputation is the lower-middle element of the sorted valid values.
C6_LowerMiddleMedian ==
    (FirstApplied /\ fill_missing_with_median /\ NValid(Column(1)) % 2 = 0) =>
        \A i \in 1..NTickers :
            Column(1)[i] = None => values[i] = LowerMiddle(Column(1))

\* C6 amended: with an even number of valid values the median used for
\* imputation is the upper-middle element of the sorted valid values (the
\* larger of the two middle values, index len // 2 counted from 0).
C6_UpperMiddleMedian ==
    (FirstApplied /\ fill_missing_with_median /\ NValid(Column(1)) % 2 = 0) =>
        \A i \in 1..NTickers :
            Column(1)[i] = None => values[i] = UpperMiddle(Column(1))

\* valid values 10 and 20 and a missing cell: the cell is given 20
C6_Witness ==
    /\ FirstApplied
    /\ fill_missing_with_median
    /\ Column(1) = <<Ten, None, Twenty>>
    /\ values = <<Ten, Twenty, Twenty>>

RECURSIVE WithoutNaN(_, _)
\* the cells of seq at the positions where col is not not-applicable
WithoutNaN(seq, col) ==
    IF Len(col) = 0 THEN <<>>
    ELSE IF Head(col) = NaN THEN WithoutNaN(Tail(seq), Tail(col))
    ELSE <<Head(seq)>> \o WithoutNaN(Tail(seq), Tail(col))

\* C7: a not-applicable cell is never replaced by the median and is left out
\* of the median and of the normalization statistics, so the normalized
\* scores of the other instruments are those of the column without the
\* not-applicable instruments.
C7_NotApplicableExcluded ==
    FirstApplied =>
        /\ \A i \in 1..NTickers : Column(1)[i] = NaN => values[i] = NaN
        /\ WithoutNaN(normalized, Column(1))
             = Normalize(normalization,
                         Impute(WithoutNaN(Column(1), Column(1)), fill_missing_with_median),
                         HigherIsBetter(MetricKeys[1]))

\* a not-applicable cell next to 10, 30 and a missing cell
C7_Witness ==
    /\ FirstApplied
    /\ fill_missing_with_median
    /\ normalization = "minmax"
    /\ Column(1) = <<Ten, NaN, None, Thirty>>
    /\ values = <<Ten, NaN, Thirty, Thirty>>
    /\ normalized = <<Hundred, None, Zero, Zero>>

\* C8: a metric without a valid value for any instrument is skipped for the
\* whole run, whatever its weight: it changes no score and no accumulated
\* weight and marks no score undefined.
C8_NoSignalSkipped ==
    [][ (pc = "loop" /\ mi <= NMetrics /\ ~HasValid(Column(mi))) =>
          /\ mi' = mi + 1
          /\ scores' = scores
          /\ actual_weights' = actual_weights ]_vars

\* the first metric is all missing or not-applicable, has weight 0.5 and
\* imputation is off: both instruments are scored on the second metric
C8_Witness ==
    /\ Done
    /\ ~fill_missing_with_median
    /\ normalization = "minmax"
    /\ weights = <<OneHalf, OneHalf>>
    /\ Column(1) = <<None, NaN>>
    /\ Column(2) = <<Ten, Twenty>>
    /\ scores = <<Zero, Hundred>>
    /\ actual_weights = <<OneHalf, OneHalf>>

\* C17: undefined is absorbing during a scoring run: once a metric has
\* marked an instrument's running score undefined, no later step of the
\* metric loop adds to its score or to its accumulated weight, the final
\* rescale does not touch it, and the returned composite is undefined.
C17_UndefinedAbsorbing ==
    [][ \A i \in 1..NTickers :
          (pc = "loop" /\ scores[i] = None) =>
              /\ scores'[i] = None
              /\ actual_weights'[i] = actual_weights[i] ]_vars

\* imputation off: the first metric is missing for the first instrument
\* and marks it undefined; its valid second metric is not added
C17_Witness ==
    /\ Done
    /\ ~fill_missing_with_median
    /\ weights = <<OneHalf, OneHalf>>
    /\ Column(1) = <<None, Ten>>
    /\ Column(2) = <<Ten, Twenty>>
    /\ scores[1] = None
    /\ actual_weights[1] = Zero
    /\ IsNum(scores[2])
    /\ actual_weights[2] = One

\* ------------------------------------------------------------------------
\* Properties of the ranking (checked under SpecRank)
\* ------------------------------------------------------------------------
\* C18: the ranking lists every instrument once, ordered by descending
\* score, and every instrument with an undefined score is placed after
\* every instrument with a numeric score.
C18_RankingDescending ==
    pc = "ranked" =>
        /\ Len(sorted_scores) = Len(scores)
        /\ {sorted_scores[p] : p \in 1..Len(sorted_scores)} = 1..Len(scores)
        /\ \A p, q \in 1..Len(sorted_scores) :
              p < q =>
                /\ scores[sorted_scores[p]] = None => scores[sorted_scores[q]] = None
                /\ (IsNum(scores[sorted_scores[p]]) /\ IsNum(scores[sorted_scores[q]]))
                      => FLeq(scores[sorted_scores[q]], scores[sorted_scores[p]])

\* two undefined scores, a 0 and a 100: 100 first, then 0, then the
\* undefined ones in their original order
C18_Witness ==
    /\ pc = "ranked"
    /\ scores = <<None, Zero, None, Hundred>>
    /\ sorted_scores = <<4, 2, 1, 3>>

\* ------------------------------------------------------------------------
\* Properties of screen_multiple (checked under SpecScreen)
\* ------------------------------------------------------------------------
\* the rows that results holds for ticker t
RowsOf(t) == {results[p].row : p \in {q \in 1..Len(results) : results[q].ticker = t}}

\* C19: in parallel screen_multiple, whatever the interleaving and
\* whichever tasks raise, the call does not fail and returns a table with
\* exactly one row per requested ticker (the requested tickers being
\* distinct); a ticker whose task raised has every metric missing, and the
\* row of every other ticker is what its own screen_stock call returned,
\* made of its own fetched values.
C19_OneRowPerTicker ==
    parallel =>
        /\ screen_pc # "raised"
        /\ screen_pc = "returned" =>
              /\ Len(results) = Len(tickers)
              /\ \A i \in Entries :
                    /\ Cardinality(RowsOf(tickers[i])) = 1
                    /\ task[i] = "raised" => RowsOf(tickers[i]) = {AllMissing}
                    /\ task[i] # "raised" =>
                          /\ RowsOf(tickers[i]) = {task_result[i]}
                          /\ \A k \in MetricSet :
                                task_result[i][k] \in {None, Fetched(tickers[i])[k]}

\* three tickers on two workers: the task of the second raised, the
\* third finished first and the first returned all its values
C19_Witness ==
    /\ parallel
    /\ screen_pc = "returned"
    /\ max_workers = 2
    /\ task = <<"done", "raised", "done">>
    /\ Len(results) = 3
    /\ results[1] = [ticker |-> 3, row |-> Fetched(3)]
    /\ results[2] = [ticker |-> 2, row |-> AllMissing]
    /\ results[3] = [ticker |-> 1, row |-> Fetched(1)]

SumOutsideBand(w) == FLess(FSum(w), Lit(99, 100)) \/ FLess(Lit(101, 100), FSum(w))

\* C14: constructing a StockScorer with a weight vector whose sum lies
\* outside [0.99, 1.01] emits a warning, does not fail and does not change
\* the weights; calculate_scores then proceeds with the weights exactly as
\* given (the composite is the weighted average under the given weights);
\* no warning is emitted when the sum lies inside [0.99, 1.01].
C14_WarningOnly ==
    pc # "new" =>
        /\ weights = given_weights
        /\ warned <=> SumOutsideBand(given_weights)
        /\ (Done /\ calls = 1) =>
              \A norms \in {NormAll} : \A i \in 1..NTickers : IsWeightedAverage(i, norms)

\* weights 1.0 and 0.5: the warning was printed and the first instrument
\* was scored with an accumulated weight of 1.5
C14_Witness ==
    /\ Done
    /\ calls = 1
    /\ warned
    /\ weights = <<One, OneHalf>>
    /\ NTickers = 2
    /\ actual_weights[1] = Lit(3, 2)
    /\ IsNum(scores[1])
    /\ scores[1] # Zero

\* the second call of calculate_scores has returned
SecondDone == Done /\ calls = 2 /\ ~in_detailed

\* C15: running calculate_scores twice on the same table and weight
\* vector, with the same algorithm and imputation setting, yields
\* identical composite scores for every instrument, including which
\* instruments are undefined.
C15_SameScoresTwice == SecondDone => scores = first_scores

\* a second run that returned a number for one instrument and undefined
\* for the other, as the first run did
C15_Witness ==
    /\ SecondDone
    /\ NTickers = 2
    /\ scores[1] = None
    /\ IsNum(scores[2])
    /\ scores[2] # Zero
    /\ first_scores = scores

\* C16: calculate_scores and get_detailed_scores leave the caller's metric
\* value table and the scorer's weight vector unchanged in every step:
\* cells that are missing stay missing although they are imputed during
\* the call. (The direction policy is only read, through HigherIsBetter.)
C16_InputsUnchanged ==
    [][ /\ stocks_data' = stocks_data
        /\ pc # "new" => weights' = weights
        /\ normalization' = normalization ]_vars

\* get_detailed_scores has returned; the first instrument has no value for
\* the only weighted metric, was imputed 10 during the call and its cell
\* is still missing
C16_Witness ==
    /\ pc = "returned"
    /\ weights = <<One, Zero>>
    /\ Column(1) = <<None, Ten>>
    /\ values = <<Ten, Ten>>
    /\ IsNum(detailed.total_score[1])

\* C21: for every instrument and every metric of the weight vector, the
\* per-metric score reported by get_detailed_scores equals the normalized
\* value that calculate_scores used for that cell when computing the
\* composite, and the reported total_score is the composite returned by
\* calculate_scores on the same table.
C21_DetailedMatchesUsed ==
    (pc = "returned" /\ NTickers > 0) =>
        \A norms \in {NormAll} :
            /\ \A k \in 1..NMetrics : \A i \in 1..NTickers :
                  Counted(i, k) => detailed.metric_scores[k][i] = norms[k][i]
            /\ detailed.total_score = scores
            /\ \A i \in 1..NTickers : IsWeightedAverage(i, norms)

\* ------------------------------------------------------------------------
\* calculate_scores called a second time by a caller who first changes the
\* values of a zero-weight metric in the table
\* ------------------------------------------------------------------------
RerunTables == UNION { [1..n -> [MetricSet -> {None, Ten, Twenty}]] : n \in 1..NumTickers }

\* the table with the column of metric k replaced by col
WithColumn(table, k, col) ==
    [i \in 1..Len(table) |-> [table[i] EXCEPT ![MetricKeys[k]] = col[i]]]

\* the rows in their original order
SameOrder(n) == [i \in 1..n |-> i]

InitZero ==
    /\ stocks_data \in RerunTables
    /\ weights \in { <<One, Zero>>, <<Zero, One>> }
    /\ normalization \in {"minmax", "zscore"}
    /\ fill_missing_with_median \in BOOLEAN
    /\ pc = "start"
    /\ mi = 1
    /\ values = <<>>
    /\ higher_better = TRUE
    /\ normalized = <<>>
    /\ scores = <<>>
    /\ actual_weights = <<>>
    /\ AdjusterIdle
    /\ SessionIdle
    /\ RankIdle
    /\ ScreenIdle
    /\ RerunIdle
    /\ MetricsIdle
    /\ CacheIdle

\* the caller keeps the first result, overwrites the column of a zero-weight
\* metric and calls calculate_scores again
ChangeZeroWeightColumn ==
    /\ pc = "done"
    /\ calls = 1
    /\ \E k \in 1..Len(MetricKeys) :
          /\ weights[k] = Zero
          /\ \E col \in [1..NTickers -> {None, NaN, Twenty}] :
                stocks_data' = WithColumn(stocks_data, k, col)
    /\ first_data' = stocks_data
    /\ first_weights' = weights
    /\ first_scores' = scores
    /\ order' = SameOrder(NTickers)
    /\ calls' = 2
    /\ pc' = "start"
    /\ UNCHANGED <<weights, normalization, fill_missing_with_median, mi, values,
                   higher_better, normalized, scores, actual_weights>>
    /\ UNCHANGED <<given_weights, warned, in_detailed, detailed>>
    /\ UNCHANGED <<adjuster_vars, rank_vars, screen_vars, metric_vars, cache_vars>>

NextZero ==
    \/ Begin
    \/ SkipZeroWeight
    \/ SkipNoSignal
    \/ ApplyMetric
    \/ Rescale
    \/ ChangeZeroWeightColumn

SpecZero == InitZero /\ [][NextZero]_vars

\* ------------------------------------------------------------------------
\* Properties of a zero-weight metric
\* ------------------------------------------------------------------------
\* the two tables agree on every metric of nonzero weight
SameWeightedColumns ==
    \A k \in 1..NMetrics : \A i \in 1..NTickers :
        weights[k] # Zero => stocks_data[i][MetricKeys[k]] = first_data[i][MetricKeys[k]]

\* the column of metric k in the table of the first call
FirstColumn(k) == [i \in 1..Len(first_data) |-> first_data[i][MetricKeys[k]]]

\* C22: a metric of weight 0 is never processed: when the second call is
\* given the same weights and a table that differs from the first only in
\* the values of zero-weight metrics (any mix of numbers, not-applicable
\* and missing cells, all missing included), it returns the same composite
\* score for every instrument, and no score that was a number is undefined.
C22_ZeroWeightIgnored ==
    (SecondDone /\ weights = first_weights /\ Len(first_data) = NTickers
        /\ SameWeightedColumns)
        => scores = first_scores

\* reached: the second call has returned numbers although the zero-weight
\* column, which held a number in the first call, was all missing in the
\* second and imputation was off
C22_Witness ==
    /\ SecondDone
    /\ weights = <<One, Zero>>
    /\ ~fill_missing_with_median
    /\ NTickers = 2
    /\ \A i \in 1..NTickers : Column(2)[i] = None /\ FirstColumn(2)[i] # None
    /\ scores[1] # scores[2]
    /\ \A i \in 1..NTickers : IsNum(scores[i])

\* ------------------------------------------------------------------------
\* EVToFCFMetric.calculate for every ticker of a peer group, followed by the
\* min-max normalization of the resulting ev_to_fcf column
\* ------------------------------------------------------------------------
\* what provider.get_valuation_data may return for a ticker
ValuationData ==
    [enterprise_value : {None, Zero, Lit(1000, 1), Lit(3200, 1)},
     free_cashflow : {None, Lit(-5, 1), Zero, Ten, Twenty}]

\* Python truthiness of an optional number: None and 0 are falsy
Truthy(x) == x # None /\ x # Zero

\* EVToFCFMetric.calculate (lines 54-62)
EVToFCF(data) ==
    IF Truthy(data.enterprise_value) /\ data.free_cashflow # None
    THEN IF FLess(Zero, data.free_cashflow)
         THEN FDiv(data.enterprise_value, data.free_cashflow)
         ELSE Hundred
    ELSE None

InitValuation ==
    /\ valuation_data \in UNION { [1..n -> ValuationData] : n \in 1..NumTickers }
    /\ leverage_data = <<>>
    /\ coverage = None
    /\ metric_pc = "call"
    /\ ScorerIdle
    /\ AdjusterIdle
    /\ SessionIdle
    /\ RankIdle
    /\ ScreenIdle
    /\ RerunIdle
    /\ CacheIdle

\* the metric is calculated for every ticker; the scorer is handed the
\* column together with the direction of ev_to_fcf
CalculateEVToFCF ==
    /\ metric_pc = "call"
    /\ values' = [i \in 1..Len(valuation_data) |-> EVToFCF(valuation_data[i])]
    /\ higher_better' = HigherIsBetter("ev_to_fcf")
    /\ pc' = "norm"
    /\ metric_pc' = "calculated"
    /\ UNCHANGED <<stocks_data, weights, normalization, fill_missing_with_median,
                   mi, normalized, scores, actual_weights>>
    /\ UNCHANGED <<valuation_data, leverage_data, coverage>>
    /\ UNCHANGED <<adjuster_vars, session_vars, rank_vars, screen_vars, rerun_vars,
                   cache_vars>>

NextValuation ==
    \/ CalculateEVToFCF
    \/ RunMinmax

SpecValuation == InitValuation /\ [][NextValuation]_vars

\* ------------------------------------------------------------------------
\* Properties of the ev_to_fcf penalty value
\* ------------------------------------------------------------------------
\* ticker i burns cash: enterprise value known, free cash flow zero or negative
CashBurning(i) ==
    /\ Truthy(valuation_data[i].enterprise_value)
    /\ valuation_data[i].free_cashflow # None
    /\ ~FLess(Zero, valuation_data[i].free_cashflow)

\* C23: an instrument whose free cash flow is zero or negative, its
\* enterprise value being known, has the worst ev_to_fcf score of its peer
\* group: after min-max normalization with ev_to_fcf as lower-is-better, no
\* peer with a valid ev_to_fcf has a lower normalized score.
C23_CashBurnerScoresWorst ==
    (metric_pc = "calculated" /\ pc = "minmax") =>
        \A i \in 1..Len(valuation_data) :
            CashBurning(i) =>
                \A j \in 1..Len(valuation_data) :
                    IsNum(values[j]) => ~FLess(normalized[j], normalized[i])

\* ------------------------------------------------------------------------
\* Properties of the imputation toggle
\* ------------------------------------------------------------------------
\* ticker i has a missing cell for a metric that calculate_scores processes
MissingWeighted(i) == \E k \in 1..NMetrics : Processed(k) /\ Column(k)[i] = None

\* C24: with the imputation toggle off, the column a processed metric is
\* normalized from is the table's column, missing cells included, and an
\* instrument that has a missing value for a nonzero-weight metric with at
\* least one valid peer value ends the run with an undefined composite
\* score, whatever its other values.
C24_NoImputationExcludes ==
    ~fill_missing_with_median =>
        /\ (pc = "loop" /\ mi > 1 /\ Processed(mi - 1)) => values = Column(mi - 1)
        /\ Done => \A i \in 1..NTickers : MissingWeighted(i) => scores[i] = None

\* reached: imputation off, the first ticker lacks the first metric and has
\* a number for the second, both metrics are weighted, and the run ended
\* with the first ticker undefined and the second scored
C24_Witness ==
    /\ Done
    /\ ~fill_missing_with_median
    /\ NTickers = 2
    /\ weights[1] # Zero /\ weights[2] # Zero
    /\ Column(1)[1] = None /\ IsNum(Column(1)[2])
    /\ IsNum(Column(2)[1]) /\ IsNum(Column(2)[2])
    /\ scores[1] = None
    /\ IsNum(scores[2])

\* C26: with imputation on, calculate_scores returns a number for every
\* instrument of a non-empty table, whatever mix of numbers, not-applicable
\* and missing cells the table holds and whatever the weights are: no score
\* is ever undefined.
C26_ImputationScoresAll ==
    (fill_missing_with_median /\ pc \in {"loop", "done"}) =>
        \A i \in 1..NTickers : IsNum(scores[i])

\* reached: imputation on, a table with a missing and a not-applicable cell
\* in weighted metrics, and the run ended with a number for every ticker
C26_Witness ==
    /\ Done
    /\ fill_missing_with_median
    /\ NTickers = 2
    /\ weights[1] # Zero /\ weights[2] # Zero
    /\ Column(1)[1] = None /\ IsNum(Column(1)[2])
    /\ Column(2)[1] = NaN
    /\ \A i \in 1..NTickers : IsNum(scores[i])

\* ------------------------------------------------------------------------
\* InterestCoverageMetric.calculate on one ticker's leverage data
\* ------------------------------------------------------------------------
\* what provider.get_leverage_data may return for a ticker
LeverageData ==
    [ebit : {None, NaN, Lit(-10, 1), Ten, Twenty},
     interest_expense : {None, NaN, Zero, Lit(5, 1)},
     total_debt : {None, NaN, Zero, One, Ten},
     ebitda : {None, NaN, Lit(-10, 1), Zero, One, Ten, Twenty}]

\* a < b on Python floats: False as soon as one side is NaN
PyLess(a, b) == IsNum(a) /\ IsNum(b) /\ FLess(a, b)

\* a / b on Python floats (b is not zero): NaN as soon as one side is NaN
PyDiv(a, b) == IF IsNum(a) /\ IsNum(b) THEN FDiv(a, b) ELSE NaN

\* the leverage test of lines 196-198 and 212-213
NegligibleLeverage(data) ==
    /\ data.total_debt # None
    /\ data.ebitda # None
    /\ PyLess(Zero, data.ebitda)
    /\ PyLess(PyDiv(data.total_debt, data.ebitda), OneHalf)

\* InterestCoverageMetric.calculate (lines 184-218)
InterestCoverage(data) ==
    IF NegligibleLeverage(data) THEN NaN
    ELSE IF data.ebit # None
         THEN IF data.interest_expense = None \/ data.interest_expense = NaN
              THEN None
              ELSE IF PyLess(Zero, data.interest_expense)
                   THEN PyDiv(data.ebit, data.interest_expense)
                   ELSE IF NegligibleLeverage(data) THEN NaN ELSE None
         ELSE None

InitLeverage ==
    /\ leverage_data \in LeverageData
    /\ valuation_data = <<>>
    /\ coverage = None
    /\ metric_pc = "call"
    /\ ScorerIdle
    /\ AdjusterIdle
    /\ SessionIdle
    /\ RankIdle
    /\ ScreenIdle
    /\ RerunIdle
    /\ CacheIdle

CalculateInterestCoverage ==
    /\ metric_pc = "call"
    /\ coverage' = InterestCoverage(leverage_data)
    /\ metric_pc' = "calculated"
    /\ UNCHANGED <<valuation_data, leverage_data>>
    /\ UNCHANGED <<scorer_vars, adjuster_vars, session_vars, rank_vars, screen_vars,
                   rerun_vars, cache_vars>>

NextLeverage == CalculateInterestCoverage

SpecLeverage == InitLeverage /\ [][NextLeverage]_vars

\* ------------------------------------------------------------------------
\* Properties of InterestCoverageMetric.calculate
\* ------------------------------------------------------------------------
\* C25: InterestCoverageMetric.calculate returns the not-applicable marker
\* exactly when total debt and EBITDA are both known, EBITDA > 0 and
\* total_debt / EBITDA < 0.5; in every other case it returns the number
\* EBIT / interest_expense (EBIT known, interest expense > 0) or the missing
\* marker, never not-applicable.
C25_NotApplicableIffNegligible ==
    (metric_pc = "calculated" /\ leverage_data # <<>>) =>
        IF NegligibleLeverage(leverage_data)
        THEN coverage = NaN
        ELSE \/ coverage = None
             \/ /\ IsNum(coverage)
                /\ leverage_data.ebit # None
                /\ PyLess(Zero, leverage_data.interest_expense)
                /\ coverage = PyDiv(leverage_data.ebit, leverage_data.interest_expense)

\* ------------------------------------------------------------------------
\* calculate_scores called a second time on the same rows in another order,
\* as when the table comes from a parallel instead of a sequential
\* screen_multiple
\* ------------------------------------------------------------------------
ReorderLen == 3

\* values whose float sum depends on the order of addition
ReorderCells == {None, Lit(11, 10), Lit(3, 1), Twenty}

ReorderTables ==
    UNION { [1..n -> { r \in [MetricSet -> ReorderCells \cup {Ten}] :
                        r[MetricKeys[1]] \in ReorderCells /\
                        r[MetricKeys[2]] \in {Ten, Twenty} }] : n \in 2..ReorderLen }

\* the first two rows exchanged
SwapFirstTwo(n) == [j \in 1..n |-> IF j = 1 THEN 2 ELSE IF j = 2 THEN 1 ELSE j]

\* the first row moved to the end
Rotate(n) == [j \in 1..n |-> IF j = n THEN 1 ELSE j + 1]

\* two orders from which every insertion order can be composed
Reorderings(n) == { SwapFirstTwo(n), Rotate(n) }

InitReorder ==
    /\ stocks_data \in ReorderTables
    /\ weights = <<OneHalf, OneHalf>>
    /\ normalization \in {"minmax", "zscore"}
    /\ fill_missing_with_median \in BOOLEAN
    /\ pc = "start"
    /\ mi = 1
    /\ values = <<>>
    /\ higher_better = TRUE
    /\ normalized = <<>>
    /\ scores = <<>>
    /\ actual_weights = <<>>
    /\ AdjusterIdle
    /\ SessionIdle
    /\ RankIdle
    /\ ScreenIdle
    /\ RerunIdle
    /\ MetricsIdle
    /\ CacheIdle

\* the caller keeps the first result and calls calculate_scores again on a
\* table holding the same rows in another insertion order
Reorder ==
    /\ pc = "done"
    /\ calls = 1
    /\ \E by \in Reorderings(NTickers) :
          /\ order' = by
          /\ stocks_data' = [j \in 1..NTickers |-> stocks_data[by[j]]]
    /\ first_data' = stocks_data
    /\ first_weights' = weights
    /\ first_scores' = scores
    /\ calls' = 2
    /\ pc' = "start"
    /\ UNCHANGED <<weights, normalization, fill_missing_with_median, mi, values,
                   higher_better, normalized, scores, actual_weights>>
    /\ UNCHANGED <<given_weights, warned, in_detailed, detailed>>
    /\ UNCHANGED <<adjuster_vars, rank_vars, screen_vars, metric_vars, cache_vars>>

NextReorder ==
    \/ Begin
    \/ SkipNoSignal
    \/ ApplyMetric
    \/ Rescale
    \/ Reorder

SpecReorder == InitReorder /\ [][NextReorder]_vars

\* ------------------------------------------------------------------------
\* Properties of the row order
\* ------------------------------------------------------------------------
\* the second call was given the rows of the first in the order `order`
Reordered ==
    /\ SecondDone
    /\ Len(order) = NTickers
    /\ \A j \in 1..NTickers : stocks_data[j] = first_data[order[j]]

\* every instrument has the score the first call gave it
SameScoresPerInstrument == \A j \in 1..NTickers : scores[j] = first_scores[order[j]]

\* C27 as stated: the composite score of each instrument does not depend on
\* the order of the instruments in the table, so a table whose rows were
\* inserted in completion order gives the scores of the sequentially built
\* table.
C27_OrderIndependent == Reordered => SameScoresPerInstrument

\* C27, amended: with min-max normalization the composite score of each
\* instrument does not depend on the order of the instruments in the table.
C27_OrderIndependentMinmax ==
    (Reordered /\ normalization = "minmax") => SameScoresPerInstrument

\* reached: three instruments with distinct scores, one of them with an
\* imputed cell, scored under min-max in two different row orders
C27_Witness ==
    /\ Reordered
    /\ normalization = "minmax"
    /\ NTickers = 3
    /\ order = Rotate(3)
    /\ fill_missing_with_median
    /\ \E i \in 1..NTickers : Column(1)[i] = None
    /\ scores[1] # scores[2] /\ scores[2] # scores[3] /\ scores[1] # scores[3]

\* ------------------------------------------------------------------------
\* calculate_scores called a second time with every weight multiplied by
\* the same positive constant
\* ------------------------------------------------------------------------
PowersOfTwo == { Lit(2, 1), OneHalf }

ScaleConstants == PowersOfTwo \cup { Lit(3, 1), Tenth }

\* {k: w * c for k, w in weights.items()}
Scaled(w, c) == [k \in 1..Len(w) |-> FMul(w[k], c)]

InitScale ==
    /\ stocks_data \in RerunTables
    /\ weights \in { <<OneHalf, OneHalf>>, <<Lit(3, 10), Lit(7, 10)>> }
    /\ normalization \in {"minmax", "zscore"}
    /\ fill_missing_with_median \in BOOLEAN
    /\ pc = "start"
    /\ mi = 1
    /\ values = <<>>
    /\ higher_better = TRUE
    /\ normalized = <<>>
    /\ scores = <<>>
    /\ actual_weights = <<>>
    /\ AdjusterIdle
    /\ SessionIdle
    /\ RankIdle
    /\ ScreenIdle
    /\ RerunIdle
    /\ MetricsIdle
    /\ CacheIdle

\* the caller keeps the first result and scores the same table again with
\* a scorer whose weights are the first ones times a positive constant
ScaleWeights ==
    /\ pc = "done"
    /\ calls = 1
    /\ \E c \in ScaleConstants : weights' = Scaled(weights, c)
    /\ first_data' = stocks_data
    /\ first_weights' = weights
    /\ first_scores' = scores
    /\ order' = SameOrder(NTickers)
    /\ calls' = 2
    /\ pc' = "start"
    /\ UNCHANGED <<stocks_data, normalization, fill_missing_with_median, mi, values,
                   higher_better, normalized, scores, actual_weights>>
    /\ UNCHANGED <<given_weights, warned, in_detailed, detailed>>
    /\ UNCHANGED <<adjuster_vars, rank_vars, screen_vars, metric_vars, cache_vars>>

NextScale ==
    \/ Begin
    \/ SkipNoSignal
    \/ ApplyMetric
    \/ Rescale
    \/ ScaleWeights

SpecScale == InitScale /\ [][NextScale]_vars

\* ------------------------------------------------------------------------
\* Properties of the weight scale
\* ------------------------------------------------------------------------
\* the second call scored the table of the first with its weights times c
ScaledBy(c) ==
    /\ SecondDone
    /\ stocks_data = first_data
    /\ Len(first_weights) = NMetrics
    /\ weights = Scaled(first_weights, c)

\* every instrument with accumulated weight has the score of the first call
SameScoresWhereWeighted ==
    \A i \in 1..NTickers :
        FLess(Zero, actual_weights[i]) => scores[i] = first_scores[i]

\* C28 as stated: multiplying every weight by the same positive constant
\* leaves the composite score of every instrument with accumulated weight
\* > 0 unchanged.
C28_ScaleInvariant ==
    (\E c \in ScaleConstants : ScaledBy(c)) => SameScoresWhereWeighted

\* C28, amended: multiplying every weight by the same power of two leaves
\* the composite score of every instrument with accumulated weight > 0
\* unchanged.
C28_ScaleInvariantPowerOfTwo ==
    (\E c \in PowersOfTwo : ScaledBy(c)) => SameScoresWhereWeighted

\* reached: the weights 0.3 and 0.7 were doubled, both metrics counted for
\* two instruments whose scores differ and lie strictly between 0 and 100
C28_Witness ==
    /\ ScaledBy(Lit(2, 1))
    /\ first_weights = <<Lit(3, 10), Lit(7, 10)>>
    /\ NTickers = 2
    /\ \A i \in 1..NTickers : FLess(One, actual_weights[i])
    /\ scores[1] # scores[2]
    /\ \E i \in 1..NTickers : FLess(Zero, scores[i]) /\ FLess(scores[i], Hundred)

\* ------------------------------------------------------------------------
\* Properties of the direction of a metric
\* ------------------------------------------------------------------------
\* what the normalizer that ran returns for the same column in the other
\* direction
OtherDirection == Normalize(pc, values, ~higher_better)

\* the scores of the column under higher-is-better and under lower-is-better
Higher(other) == IF higher_better THEN normalized ELSE other

Lower(other) == IF higher_better THEN other ELSE normalized

\* cell by cell, the lower-is-better score is 100 minus the higher-is-better one
Mirrored(other) ==
    \A i \in 1..Len(values) :
        IsNum(normalized[i]) => Lower(other)[i] = FSub(Hundred, Higher(other)[i])

\* cell by cell, the two directions add up to 100 within one unit in the
\* last place of 100
NearlyMirrored(other) ==
    \A i \in 1..Len(values) :
        IsNum(normalized[i]) =>
            /\ IsNum(other[i])
            /\ \A sum \in {FAdd(other[i], normalized[i])} :
                  /\ FLeq(FSub(Hundred, Rnd(1, 1, 7 - MantBits)), sum)
                  /\ FLeq(sum, FAdd(Hundred, Rnd(1, 1, 7 - MantBits)))

\* C29 as stated: for the same column and both algorithms, the normalized
\* score of every non-missing cell under lower-is-better equals 100 minus
\* its normalized score under higher-is-better.
C29_DirectionsMirror ==
    NormDone => \A other \in {OtherDirection} : Mirrored(other)

\* C29, amended: under min-max the score of every non-missing cell in one
\* direction equals 100 minus its score in the other direction; under
\* z-score the two add up to 100 up to rounding.
C29_DirectionsMirrorMinmax ==
    NormDone =>
        \A other \in {OtherDirection} :
            IF pc = "minmax" THEN Mirrored(other) ELSE NearlyMirrored(other)

\* reached: a min-max column with three distinct values, whose middle cell
\* has a score strictly between 0 and 100, and a z-score column whose
\* outlier is saturated by the clamp
C29_Witness ==
    \/ /\ pc = "minmax"
       /\ Len(values) = 3
       /\ \E i \in 1..3 : normalized[i] \notin {None, NaN, Zero, Fifty, Hundred}
    \/ /\ pc = "zscore"
       /\ Len(values) = OutlierLen
       /\ normalized[OutlierLen] \in {Zero, Hundred}

\* ------------------------------------------------------------------------
\* The results cache: save_results writes the screened table to CACHE_FILE
\* as JSON, load_cached_results reads it back
\* ------------------------------------------------------------------------
\* float('inf') and float('-inf')
PosInf == [tag |-> "inf", m |-> 1, e |-> 0]

NegInf == [tag |-> "inf", m |-> -1, e |-> 0]

CacheTables ==
    UNION { [1..n -> [MetricSet -> {None, NaN, PosInf, NegInf, Tenth, Ten}]] :
              n \in 1..NumTickers }

\* the JSON values the cache file holds
JsonNull == [json |-> "null", text |-> "", m |-> 0, e |-> 0]

JsonString(text) == [json |-> "string", text |-> text, m |-> 0, e |-> 0]

\* a finite float is written in the shortest decimal form that reads back
\* as the same float
JsonNumber(v) == [json |-> "number", text |-> "", m |-> v.m, e |-> v.e]

\* the conversion of one cell to its serializable form (lines 40-50)
Serializable(value) ==
    IF value = None THEN JsonNull
    ELSE IF value.tag = "NaN" THEN JsonString("NaN")
    ELSE IF value.tag = "inf" THEN JsonString("Inf")
    ELSE JsonNumber(value)

\* json.load of one value followed by the conversion of the special
\* strings back to floats (lines 62-71)
FromCache(j) ==
    IF j.json = "null" THEN None
    ELSE IF j = JsonString("NaN") THEN NaN
    ELSE IF j = JsonString("Inf") THEN PosInf
    ELSE [tag |-> "num", m |-> j.m, e |-> j.e]

InitCache ==
    /\ stocks_data \in CacheTables
    /\ cache_file = <<>>
    /\ loaded = <<>>
    /\ cache_pc = "fetched"
    /\ weights = <<Zero, Zero>>
    /\ normalization = "minmax"
    /\ fill_missing_with_median = TRUE
    /\ pc = "idle"
    /\ mi = 1
    /\ values = <<>>
    /\ higher_better = TRUE
    /\ normalized = <<>>
    /\ scores = <<>>
    /\ actual_weights = <<>>
    /\ AdjusterIdle
    /\ SessionIdle
    /\ RankIdle
    /\ ScreenIdle
    /\ RerunIdle
    /\ MetricsIdle

\* save_results, from the table screen_multiple returned to the written file
SaveResults ==
    /\ cache_pc = "fetched"
    /\ cache_file' = [i \in 1..NTickers |->
                        [k \in MetricSet |-> Serializable(stocks_data[i][k])]]
    /\ cache_pc' = "saved"
    /\ UNCHANGED loaded
    /\ UNCHANGED <<scorer_vars, adjuster_vars, session_vars, rank_vars, screen_vars,
                   rerun_vars, metric_vars>>

\* load_cached_results
LoadCachedResults ==
    /\ cache_pc = "saved"
    /\ loaded' = [i \in 1..Len(cache_file) |->
                    [k \in MetricSet |-> FromCache(cache_file[i][k])]]
    /\ cache_pc' = "loaded"
    /\ UNCHANGED cache_file
    /\ UNCHANGED <<scorer_vars, adjuster_vars, session_vars, rank_vars, screen_vars,
                   rerun_vars, metric_vars>>

NextCache ==
    \/ SaveResults
    \/ LoadCachedResults

SpecCache == InitCache /\ [][NextCache]_vars

\* ------------------------------------------------------------------------
\* Properties of the cache round trip
\* ------------------------------------------------------------------------
\* C30: saving a table with save_results and reading it back with
\* load_cached_results preserves every cell: a number stays the same
\* number, a not-applicable cell stays not-applicable and a missing cell
\* stays missing.
C30_RoundTripPreservesCells ==
    cache_pc = "loaded" =>
        /\ Len(loaded) = NTickers
        /\ \A i \in 1..NTickers : \A k \in MetricSet : loaded[i][k] = stocks_data[i][k]

====
